---- MODULE Spec2Model ----
(***************************************************************************)
(* Model of ezIPSet (src/ezipset/ezipset.py): a facade that runs the       *)
(* external "ipset" tool as a child process and parses its text output.    *)
(*                                                                         *)
(* A text is a sequence of tokens: the whitespace characters " " and "\n", *)
(* and opaque non-whitespace chunks.  The external tool and the file       *)
(* system are the environment: the tool's sets, and the files by path.     *)
(***************************************************************************)
EXTENDS Integers, Sequences, FiniteSets, TLC

VARIABLES
    child,            \* SpecRun: the child process handed to the command runner
    run,              \* SpecRun: what the command runner gave back
    raise_on_errors,  \* ezIPSet.raise_on_errors
    command_timeout,  \* ezIPSet.command_timeout
    protocol,         \* ezIPSet.protocol, read from the tool at construction
    set_names,        \* ezIPSet.__set_names, the cached list of set names
    kernel,           \* the sets the external tool holds
    files,            \* the files the caller names, by path
    ret               \* how the last facade call ended

vars == <<child, run, raise_on_errors, command_timeout, protocol, set_names,
          kernel, files, ret>>

(***************************************************************************)
(* Bounds                                                                  *)
(***************************************************************************)
MaxLen == 2          \* longest stdout / stderr text drawn for a raw child

(***************************************************************************)
(* Texts                                                                   *)
(***************************************************************************)
NL == "\n"
SP == " "
Whitespace == {SP, NL}

\* the element of a singleton set.  A local value v of a method is written
\* "x \in {v}" so that it is computed once, where it is assigned.
The(S) == CHOOSE x \in S : TRUE

\* all sequences over S of length 0..n
RECURSIVE SeqsUpTo(_, _)
SeqsUpTo(S, n) ==
    IF n = 0 THEN {<<>>}
    ELSE LET shorter == SeqsUpTo(S, n - 1)
         IN shorter \cup {Append(s, x) : s \in {t \in shorter : Len(t) = n - 1}, x \in S}

RECURSIVE LStrip(_)
LStrip(s) == IF s # <<>> /\ Head(s) \in Whitespace THEN LStrip(Tail(s)) ELSE s

RECURSIVE RStrip(_)
RStrip(s) ==
    IF s # <<>> /\ s[Len(s)] \in Whitespace THEN RStrip(SubSeq(s, 1, Len(s) - 1)) ELSE s

\* str.strip()
Strip(s) == RStrip(LStrip(s))

\* str.split("\n"): always at least one element, "" gives [""]
RECURSIVE SplitFrom(_, _, _)
SplitFrom(s, i, cur) ==
    IF i > Len(s) THEN <<cur>>
    ELSE IF s[i] = NL THEN <<cur>> \o SplitFrom(s, i + 1, <<>>)
    ELSE SplitFrom(s, i + 1, Append(cur, s[i]))

SplitLines(s) == SplitFrom(s, 1, <<>>)

(***************************************************************************)
(* The command runner                                                      *)
(***************************************************************************)
\* a local variable that no assignment has reached
Unbound == <<"<unbound>">>
\* Popen.returncode: <<>> is None, <<n>> is the exit status n
RcNone == <<>>
\* the local variable process: unbound, or a Popen object with its returncode
NoProcess == [bound |-> FALSE, returncode |-> RcNone]
Process(rc) == [bound |-> TRUE, returncode |-> rc]

\* Durations a child may take, in seconds, on both sides of the timeouts
Durations == {1, 4, 6}
ExitCodes == {0, 1}

\* the default of __run_command's command_timeout parameter
DefaultCommandTimeout == 5
\* the default of __run_command's raise_on_errors parameter
DefaultRunRaise == FALSE

\* first try block of __run_command: the locals after it, or the raise
RunSpawn(c, timeout, raise) ==
    IF ~c.found
    THEN [raised  |-> IF raise THEN "ezIPSetError:File not found" ELSE "none",
          process |-> NoProcess, result |-> Unbound, error |-> Unbound,
          killed  |-> FALSE, spawned |-> FALSE, expired |-> FALSE]
    ELSE IF c.duration > timeout
    THEN [raised  |-> IF raise THEN "ezIPSetError:Command timeout" ELSE "none",
          process |-> Process(RcNone), result |-> Unbound, error |-> Unbound,
          killed  |-> TRUE, spawned |-> TRUE, expired |-> TRUE]
    ELSE [raised  |-> "none",
          process |-> Process(<<c.rc>>), result |-> c.stdout, error |-> c.stderr,
          killed  |-> FALSE, spawned |-> TRUE, expired |-> FALSE]

\* a mutation of RunFinish: stderr is never taken, stdout is returned
\* whatever the exit status
RunFinishStdoutOnly(l) ==
    LET base == [killed |-> l.killed, spawned |-> l.spawned, expired |-> l.expired]
        ule  == [exc |-> "UnboundLocalError", flag |-> FALSE, output |-> <<>>] @@ base
    IN  IF l.raised # "none" THEN [exc |-> l.raised, flag |-> FALSE, output |-> <<>>] @@ base
        ELSE IF ~l.process.bound THEN ule
        ELSE IF l.result = Unbound \/ l.error = Unbound THEN ule
        ELSE [exc |-> "none", flag |-> (l.process.returncode = <<0>>),
              output |-> Strip(l.result)] @@ base

\* second try block of __run_command, with its finally clause
RunFinish(l) ==
    LET base   == [killed |-> l.killed, spawned |-> l.spawned, expired |-> l.expired]
        ule    == [exc |-> "UnboundLocalError", flag |-> FALSE, output |-> <<>>] @@ base
        result == IF l.process.returncode # <<0>> THEN l.error ELSE l.result
    IN  IF l.raised # "none" THEN [exc |-> l.raised, flag |-> FALSE, output |-> <<>>] @@ base
        ELSE IF ~l.process.bound THEN ule             \* process.returncode
        ELSE IF result = Unbound THEN ule             \* result = error / result.strip()
        ELSE IF l.result = Unbound \/ l.error = Unbound THEN ule   \* del result, error
        ELSE [exc |-> "none", flag |-> (l.process.returncode = <<0>>), output |-> Strip(result)] @@ base

\* __run_command(command_to_run, command_timeout=5, raise_on_errors=False)
RunCommand(c, timeout, raise) == The({RunFinish(l) : l \in {RunSpawn(c, timeout, raise)}})

(***************************************************************************)
(* The external tool: its sets, and what each subcommand does and prints   *)
(***************************************************************************)
\* ezIPSet.VALID_SET_TYPES: set type -> optional attributes
VALID_SET_TYPES ==
    ("bitmap:ip" :> {"counters", "comment", "skbinfo"}) @@
    ("bitmap:ip,mac" :> {"counters", "comment", "skbinfo"}) @@
    ("bitmap:port" :> {"counters", "comment", "skbinfo"}) @@
    ("hash:ip" :> {"counters", "comment", "forceadd", "skbinfo", "bucketsize"}) @@
    ("hash:ip,mac" :> {"bucketsize"}) @@
    ("hash:ip,mark" :> {"forceadd", "skbinfo", "bucketsize"}) @@
    ("hash:ip,port" :> {"counters", "comment", "forceadd", "skbinfo", "bucketsize"}) @@
    ("hash:ip,port,ip" :> {"counters", "comment", "forceadd", "skbinfo", "bucketsize"}) @@
    ("hash:ip,port,net" :> {"nomatch", "counters", "comment", "forceadd", "skbinfo", "bucketsize"}) @@
    ("hash:mac" :> {"bucketsize"}) @@
    ("hash:net" :> {"nomatch", "counters", "comment", "forceadd", "skbinfo", "bucketsize"}) @@
    ("hash:net,iface" :> {"nomatch", "counters", "comment", "forceadd", "skbinfo", "bucketsize", "wildcard"}) @@
    ("hash:net,net" :> {"forceadd", "skbinfo", "bucketsize"}) @@
    ("hash:net,port" :> {"nomatch", "counters", "comment", "forceadd", "skbinfo", "bucketsize"}) @@
    ("hash:net,port,net" :> {"forceadd", "skbinfo", "bucketsize"}) @@
    ("list:set" :> {"counters", "comment", "skbinfo"})

Names == {"a", "b"}
NameOrder == <<"a", "b">>
Entries == {"1"}
\* an entry that is stored with the nomatch flag (a net type holds such entries)
NomatchEntries == {"9"}
MemberOrder == <<"1", "9">>
\* the set types the tool is run with here (three of VALID_SET_TYPES)
KernelTypes == {"hash:ip", "hash:mac", "hash:net"}
\* the flag options of "create", in the order create_set writes them
FlagOrder == <<"comment", "counters", "skbinfo", "nomatch", "forceadd", "wildcard">>

NoSet == [exists |-> FALSE, type |-> "-", flags |-> {}, members |-> {}]
NewSet(t, flags) == [exists |-> TRUE, type |-> t, flags |-> flags, members |-> {}]
EmptyKernel == [n \in Names |-> NoSet]

\* what the tool writes on stderr when it fails
ErrText == <<"ipset:", SP, "error", NL>>

RECURSIVE Concat(_)
Concat(ss) == IF ss = <<>> THEN <<>> ELSE Head(ss) \o Concat(Tail(ss))

\* the words of a text: shlex.split on a text without quotes
RECURSIVE Words(_)
Words(t) ==
    IF t = <<>> THEN <<>>
    ELSE IF Head(t) \in Whitespace THEN Words(Tail(t))
    ELSE <<Head(t)>> \o Words(Tail(t))

\* stdout of "list -name": one name per line
ListNames(k) ==
    Concat([i \in 1..Len(NameOrder) |->
              IF k[NameOrder[i]].exists THEN <<NameOrder[i], NL>> ELSE <<>>])

\* the flags of a set as the words of a command line, each after a blank
FlagText(flags) ==
    Concat([i \in 1..Len(FlagOrder) |->
              IF FlagOrder[i] \in flags THEN <<SP, FlagOrder[i]>> ELSE <<>>])

\* what the tool prints after an entry e of set s, in "list" and in "save"
MemberTail(s, e) ==
    (IF "counters" \in s.flags THEN <<SP, "packets", SP, "0", SP, "bytes", SP, "0">> ELSE <<>>)
    \o (IF "comment" \in s.flags THEN <<SP, "comment", SP, "\"office\"">> ELSE <<>>)
    \o (IF e \in NomatchEntries THEN <<SP, "nomatch">> ELSE <<>>)

\* the entries of set s, one per line
MemberLines(s, prefix) ==
    Concat([j \in 1..Len(MemberOrder) |->
              IF MemberOrder[j] \in s.members
              THEN prefix \o <<MemberOrder[j]>> \o MemberTail(s, MemberOrder[j]) \o <<NL>>
              ELSE <<>>])

CreateLine(n, s) == <<"create", SP, n, SP, s.type>> \o FlagText(s.flags) \o <<NL>>
AddLine(n, s) == MemberLines(s, <<"add", SP, n, SP>>)

\* stdout of "save": for each set its create line, then its add lines
Dump(k) ==
    Concat([i \in 1..Len(NameOrder) |->
              LET n == NameOrder[i]
              IN  IF k[n].exists THEN CreateLine(n, k[n]) \o AddLine(n, k[n]) ELSE <<>>])

\* a count as the tool prints it
CountText(n) == <<"0", "1", "2">>[n + 1]

\* the labels of the terse listing, in the order the tool prints them; a tool
\* of protocol 6 prints the first six
Labels ==
    <<(<<"Name:">>), (<<"Type:">>), (<<"Revision:">>), (<<"Header:">>),
      (<<"Size", SP, "in", SP, "memory:">>), (<<"References:">>),
      (<<"Number", SP, "of", SP, "entries:">>)>>

\* the Header line of set s
HeaderText(s) ==
    <<"family", SP, "inet", SP, "hashsize", SP, "1024", SP, "maxelem", SP, "65536">>
    \o FlagText(s.flags)

\* stdout of "list <n> -terse" of a tool that speaks protocol proto
TerseText(n, s, proto) ==
    LET values == <<(<<n>>), (<<s.type>>), (<<"4">>), HeaderText(s), (<<"16728">>), (<<"0">>),
                    (<<CountText(Cardinality(s.members))>>)>>
    IN  Concat([i \in 1..(IF proto = 7 THEN 7 ELSE 6) |->
                  Labels[i] \o <<SP>> \o values[i] \o <<NL>>])

\* stdout of "list <n>": the terse listing and the entries section
ListText(n, s, proto) == TerseText(n, s, proto) \o <<"Members:", NL>> \o MemberLines(s, <<>>)

\* the words after position i of a command line, as a set of flags
FlagsFrom(w, i) == {w[j] : j \in i..Len(w)}

\* the tool takes these flags for a set of type t
ToolTakes(t, flags) == flags \subseteq VALID_SET_TYPES[t]

ToolOk(k, out) == [rc |-> 0, stdout |-> out, stderr |-> <<>>, kernel |-> k]
ToolFail(k) == [rc |-> 1, stdout |-> <<>>, stderr |-> ErrText, kernel |-> k]

\* "restore": the lines are applied in order and the first bad line stops it
RECURSIVE ToolRestore(_, _, _)
ToolRestore(lines, exist, k) ==
    IF lines = <<>> THEN ToolOk(k, <<>>)
    ELSE The({IF w = <<>> THEN ToolRestore(Tail(lines), exist, k)
              ELSE IF Len(w) >= 3 /\ w[1] = "create" /\ w[2] \in Names /\ w[3] \in KernelTypes
                      /\ ToolTakes(w[3], FlagsFrom(w, 4))
              THEN IF k[w[2]].exists
                   THEN IF exist /\ k[w[2]].type = w[3]
                        THEN ToolRestore(Tail(lines), exist, k)
                        ELSE ToolFail(k)
                   ELSE ToolRestore(Tail(lines), exist,
                                    [k EXCEPT ![w[2]] = NewSet(w[3], FlagsFrom(w, 4))])
              ELSE IF Len(w) >= 3 /\ w[1] = "add" /\ w[2] \in Names
                      /\ w[3] \in Entries \cup NomatchEntries
              THEN IF \/ ~k[w[2]].exists
                      \/ (w[3] \in k[w[2]].members /\ ~exist)
                      \/ SubSeq(w, 4, Len(w)) # Words(MemberTail(k[w[2]], w[3]))
                      \/ (w[3] \in NomatchEntries /\ ~ToolTakes(k[w[2]].type, {"nomatch"}))
                   THEN ToolFail(k)
                   ELSE ToolRestore(Tail(lines), exist,
                                    [k EXCEPT ![w[2]].members = @ \cup {w[3]}])
              ELSE ToolFail(k)
              : w \in {Words(Head(lines))}})

\* a command line: the subcommand, two arguments as texts, the -exist flag
Cmd(sub, a, b, exist) == [sub |-> sub, a |-> a, b |-> b, exist |-> exist]

\* the external tool run on a command line in kernel state k; its listings
\* are those of the protocol it speaks, which the instance read from it
Tool(cmd, k) ==
    LET a == Words(cmd.a)
        b == Words(cmd.b)
        isSet(w) == Len(w) = 1 /\ w[1] \in Names /\ k[w[1]].exists
    IN  CASE cmd.sub = "list -name" -> ToolOk(k, ListNames(k))
          [] cmd.sub = "save" -> ToolOk(k, Dump(k))
          [] cmd.sub = "restore" -> ToolRestore(SplitLines(cmd.a), cmd.exist, k)
          [] cmd.sub = "destroy" ->
                IF a = <<>> THEN ToolOk(EmptyKernel, <<>>)
                ELSE IF isSet(a) THEN ToolOk([k EXCEPT ![a[1]] = NoSet], <<>>)
                ELSE ToolFail(k)
          [] cmd.sub = "create" ->
                IF Len(a) = 1 /\ a[1] \in Names /\ Len(b) >= 1 /\ b[1] \in KernelTypes
                   /\ ToolTakes(b[1], FlagsFrom(b, 2))
                THEN IF k[a[1]].exists
                     THEN IF cmd.exist /\ k[a[1]].type = b[1] THEN ToolOk(k, <<>>)
                          ELSE ToolFail(k)
                     ELSE ToolOk([k EXCEPT ![a[1]] = NewSet(b[1], FlagsFrom(b, 2))], <<>>)
                ELSE ToolFail(k)
          [] cmd.sub = "rename" ->
                IF isSet(a) /\ Len(b) = 1 /\ b[1] \in Names /\ ~k[b[1]].exists
                THEN ToolOk([k EXCEPT ![b[1]] = k[a[1]], ![a[1]] = NoSet], <<>>)
                ELSE ToolFail(k)
          [] cmd.sub = "swap" ->
                IF isSet(a) /\ isSet(b) /\ k[a[1]].type = k[b[1]].type
                THEN ToolOk([k EXCEPT ![a[1]] = k[b[1]], ![b[1]] = k[a[1]]], <<>>)
                ELSE ToolFail(k)
          [] cmd.sub = "flush" ->
                IF a = <<>> THEN ToolOk([n \in Names |-> [k[n] EXCEPT !.members = {}]], <<>>)
                ELSE IF isSet(a) THEN ToolOk([k EXCEPT ![a[1]].members = {}], <<>>)
                ELSE ToolFail(k)
          [] cmd.sub = "add" ->
                IF isSet(a) /\ Len(b) = 1 /\ b[1] \in Entries
                   /\ (b[1] \notin k[a[1]].members \/ cmd.exist)
                THEN ToolOk([k EXCEPT ![a[1]].members = @ \cup {b[1]}], <<>>)
                ELSE ToolFail(k)
          [] cmd.sub = "del" ->
                IF isSet(a) /\ Len(b) = 1 /\ b[1] \in Entries
                   /\ (b[1] \in k[a[1]].members \/ cmd.exist)
                THEN ToolOk([k EXCEPT ![a[1]].members = @ \ {b[1]}], <<>>)
                ELSE ToolFail(k)
          [] cmd.sub = "test" ->
                IF isSet(a) /\ Len(b) = 1 /\ b[1] \in k[a[1]].members
                THEN ToolOk(k, <<>>)
                ELSE ToolFail(k)
          [] cmd.sub = "list -terse" ->
                IF isSet(a) THEN ToolOk(k, TerseText(a[1], k[a[1]], protocol)) ELSE ToolFail(k)
          [] cmd.sub = "list" ->
                IF isSet(a) THEN ToolOk(k, ListText(a[1], k[a[1]], protocol)) ELSE ToolFail(k)
          [] OTHER -> ToolFail(k)

(***************************************************************************)
(* One child process of a facade call                                      *)
(***************************************************************************)
\* how the environment treats one child: the executable is there or not, the
\* child takes so many seconds, the tool refuses the command (deny)
OkEnv      == [found |-> TRUE,  duration |-> 1, deny |-> FALSE]
DenyEnv    == [found |-> TRUE,  duration |-> 1, deny |-> TRUE]
HangEnv    == [found |-> TRUE,  duration |-> 6, deny |-> FALSE]
MissingEnv == [found |-> FALSE, duration |-> 1, deny |-> FALSE]
\* a child that takes longer than the shorter instance timeout
SlowEnv    == [found |-> TRUE,  duration |-> 4, deny |-> FALSE]
Envs == {OkEnv, DenyEnv, HangEnv, MissingEnv}
\* the environments of the children of destroy_all
LoopEnvs == {OkEnv, DenyEnv, HangEnv}
\* the environments of the child of add_entry
EntryEnvs == Envs \cup {SlowEnv}

\* why a child run did not give a success: "ok" when it did
Cause(env, r) ==
    IF ~env.found THEN "notfound"
    ELSE IF r.expired THEN "timeout"
    ELSE IF r.exc = "none" /\ ~r.flag THEN "toolfail"
    ELSE "ok"

\* the working state of a facade call: the tool's sets, the commands run, how
\* each run went and how many seconds its child took (0: no child started)
Ctx(k) == [k |-> k, cmds |-> <<>>, runs |-> <<>>, durs |-> <<>>]

\* self.__run_command(cmd): no facade method passes command_timeout or
\* raise_on_errors, so the defaults apply
Exec(c, cmd, env) ==
    The({The({The({[exc |-> r.exc, flag |-> r.flag, output |-> r.output,
                    c |-> [k    |-> IF env.found /\ ~r.expired THEN t.kernel ELSE c.k,
                           cmds |-> Append(c.cmds, cm.sub),
                           runs |-> Append(c.runs, Cause(env, r)),
                           durs |-> Append(c.durs, IF env.found THEN env.duration ELSE 0)]]
                   : r \in {RunCommand([found |-> env.found, duration |-> env.duration,
                                        rc |-> t.rc, stdout |-> t.stdout, stderr |-> t.stderr],
                                       DefaultCommandTimeout, DefaultRunRaise)}})
              : t \in {IF env.deny THEN ToolFail(c.k) ELSE Tool(cm, c.k)}})
         : cm \in {cmd}})

(***************************************************************************)
(* The facade methods.  Each operator is one method: from the working      *)
(* state, the cached list, the arguments and the environment of each child *)
(* it runs, to the way it ends (exc, val) and what it leaves behind.       *)
(***************************************************************************)
\* the families create_set accepts
ValidFamilies == {"inet", "inet6"}

\* how a method ends: exc is "none" for a return, and then val is the value
End(exc, val, c, sn) ==
    [exc |-> exc, val |-> val, k |-> c.k, cmds |-> c.cmds, runs |-> c.runs,
     durs |-> c.durs, sn |-> sn]

\* "if self.raise_on_errors: raise ezIPSetError(...); return <sentinel>"
Fail(roe, msg, sentinel, c, sn) ==
    IF roe THEN End("ezIPSetError", msg, c, sn) ELSE End("none", sentinel, c, sn)

\* the working state a method leaves to the next one
CtxOf(e) == [k |-> e.k, cmds |-> e.cmds, runs |-> e.runs, durs |-> e.durs]

\* __update_set_names: the list is cleared when the command failed, and then
\* replaced by the lines of the output in either case
update_set_names(c, sn, env) ==
    The({IF r.exc # "none" THEN [exc |-> r.exc, c |-> r.c, sn |-> sn, cleared |-> FALSE]
         ELSE [exc |-> "none", c |-> r.c, sn |-> SplitLines(r.output), cleared |-> ~r.flag]
         : r \in {Exec(c, Cmd("list -name", <<>>, <<>>, FALSE), env)}})

get_set_names(c, sn, roe, env) ==
    The({IF r.exc # "none" THEN End(r.exc, "", r.c, sn)
         ELSE IF ~r.flag THEN Fail(roe, "Failed to list ipset set names", "[]", r.c, sn)
         ELSE End("none", "list", r.c, SplitLines(r.output))
         : r \in {Exec(c, Cmd("list -name", <<>>, <<>>, FALSE), env)}})

\* try: <body> finally: self.__update_set_names(), for a body that ends as e
FinallyRefresh(e, sn, env) ==
    The({IF u.exc # "none" THEN End(u.exc, "", u.c, u.sn) @@ [cleared |-> FALSE]
         ELSE End(e.exc, e.val, u.c, u.sn) @@ [cleared |-> u.cleared]
         : u \in {update_set_names(CtxOf(e), sn, env)}})

\* destroy_set: the command runs outside the try, the refresh in its finally;
\* cleared: the refresh called clear() on the list object it found
destroy_set(c, sn, roe, name, e1, e2) ==
    The({IF r.exc # "none" THEN End(r.exc, "", r.c, sn) @@ [cleared |-> FALSE]
         ELSE IF ~r.flag
         THEN FinallyRefresh(Fail(roe, "Failed to destroy ipset set", "False", r.c, sn), sn, e2)
         ELSE FinallyRefresh(End("none", "True", r.c, sn), sn, e2)
         : r \in {Exec(c, Cmd("destroy", name, <<>>, FALSE), e1)}})

\* list.index(x): 0 when x is not in the list (ValueError)
IndexOf(s, x) == IF \E i \in 1..Len(s) : s[i] = x
                 THEN CHOOSE i \in 1..Len(s) : s[i] = x /\ \A j \in 1..(i - 1) : s[j] # x
                 ELSE 0

\* list.pop(i)
Pop(s, i) == SubSeq(s, 1, i - 1) \o SubSeq(s, i + 1, Len(s))

\* the loop of destroy_all over ipset_list, from position i.  ipset_list is
\* the very list object get_set_names stored: it is the cached list until the
\* first refresh rebinds the attribute, so a clear() by that refresh empties
\* ipset_list too (aliased).
RECURSIVE destroy_all_loop(_, _, _, _, _, _, _)
destroy_all_loop(c, sn, roe, ipset_list, aliased, i, envs) ==
    IF i > Len(ipset_list) THEN End("none", "True", c, sn)
    ELSE The({IF d.exc # "none" THEN End(d.exc, d.val, CtxOf(d), d.sn)
              ELSE IF d.val = "True"
              THEN IF IndexOf(d.sn, ipset_list[i]) = 0
                   THEN End("ValueError", "x not in list", CtxOf(d), d.sn)
                   ELSE destroy_all_loop(CtxOf(d), Pop(d.sn, IndexOf(d.sn, ipset_list[i])), roe,
                                         IF aliased /\ d.cleared THEN <<>> ELSE ipset_list,
                                         FALSE, i + 1, envs)
              ELSE destroy_all_loop(CtxOf(d), d.sn, roe,
                                    IF aliased /\ d.cleared THEN <<>> ELSE ipset_list,
                                    FALSE, i + 1, envs)
              : d \in {destroy_set(c, sn, roe, ipset_list[i], envs[2 * i], envs[2 * i + 1])}})

destroy_all(c, sn, roe, envs) ==
    The({IF g.exc # "none" THEN g
         ELSE IF g.val = "[]" THEN End("none", "True", CtxOf(g), g.sn)
         ELSE destroy_all_loop(CtxOf(g), g.sn, roe, g.sn, TRUE, 1, envs)
         : g \in {get_set_names(c, sn, roe, envs[1])}})

\* "self.__update_set_names(); return True" at the end of a method
RefreshAndReturnTrue(c, sn, env) ==
    The({IF u.exc # "none" THEN End(u.exc, "", u.c, u.sn)
         ELSE End("none", "True", u.c, u.sn)
         : u \in {update_set_names(c, sn, env)}})

rename_set(c, sn, roe, old, new, e1, e2) ==
    The({IF r.exc # "none" THEN End(r.exc, "", r.c, sn)
         ELSE IF ~r.flag THEN Fail(roe, "Failed to rename ipset set", "False", r.c, sn)
         ELSE RefreshAndReturnTrue(r.c, sn, e2)
         : r \in {Exec(c, Cmd("rename", <<old>>, <<new>>, FALSE), e1)}})

swap_set(c, sn, roe, from, to, env) ==
    The({IF r.exc # "none" THEN End(r.exc, "", r.c, sn)
         ELSE IF ~r.flag THEN Fail(roe, "Failed to swap ipset sets", "False", r.c, sn)
         ELSE End("none", "True", r.c, sn)
         : r \in {Exec(c, Cmd("swap", <<from>>, <<to>>, FALSE), env)}})

flush_set(c, sn, roe, name, env) ==
    The({IF r.exc # "none" THEN End(r.exc, "", r.c, sn)
         ELSE IF ~r.flag THEN Fail(roe, "Failed to flush ipset set", "False", r.c, sn)
         ELSE End("none", "True", r.c, sn)
         : r \in {Exec(c, Cmd("flush", <<name>>, <<>>, FALSE), env)}})

flush_all(c, sn, roe, ignore_errors, env) ==
    The({IF r.exc # "none" THEN End(r.exc, "", r.c, sn)
         ELSE IF ~r.flag
         THEN Fail(roe /\ ~ignore_errors, "Failed to flush all ipset sets", "False", r.c, sn)
         ELSE End("none", "True", r.c, sn)
         : r \in {Exec(c, Cmd("flush", <<>>, <<>>, FALSE), env)}})

\* int(): the digit-only words of the listings and their values
IntOf ==
    ("0" :> 0) @@ ("1" :> 1) @@ ("2" :> 2) @@ ("4" :> 4) @@ ("1024" :> 1024) @@
    ("16728" :> 16728) @@ ("65536" :> 65536)

\* str.isdigit()
IsDigit(w) == w \in DOMAIN IntOf

\* the values of a parsed mapping: True, an int, a str
PyTrue == [bool |-> TRUE]
PyInt(n) == [int |-> n]
PyStr(w) == [str |-> w]

\* "if str(param_value).isdigit(): param_value = int(param_value)"
Coerce(w) == IF IsDigit(w) THEN PyInt(IntOf[w]) ELSE PyStr(w)

\* {}
EmptyDict == [key \in {} |-> PyTrue]

\* shlex.split: the words of a text, a quoted word without its quotes
Unquote(w) == IF w = "\"office\"" THEN "office" ELSE w
Shlex(t) == [i \in 1..Len(Words(t)) |-> Unquote(Words(t)[i])]

\* a line starts with the label and one whitespace character
HasLabel(line, label) ==
    /\ Len(line) > Len(label)
    /\ SubSeq(line, 1, Len(label)) = label
    /\ line[Len(label) + 1] \in Whitespace

AfterLabel(line, label) == SubSeq(line, Len(label) + 2, Len(line))

\* __IPSET_RE_LIST_TERSE.search(text): the pattern compiled for the protocol
\* has seven groups for protocol 7 (line 88) and six for protocol 6 (line 90);
\* each labelled line must be there, in order, from the first line on, and
\* the last group of the protocol 6 pattern ends at the first whitespace
RegexTerse(proto, text) ==
    The({IF /\ Len(lines) > n
            /\ \A i \in 1..n : HasLabel(lines[i], Labels[i])
         THEN [match |-> TRUE,
               groups |-> [i \in 1..n |->
                             IF proto = 6 /\ i = n
                             THEN SubSeq(Words(AfterLabel(lines[i], Labels[i])), 1, 1)
                             ELSE AfterLabel(lines[i], Labels[i])]]
         ELSE [match |-> FALSE, groups |-> <<>>]
         : lines \in {SplitLines(text)}, n \in {IF proto = 7 THEN 7 ELSE 6}})

\* the loop over params_to_pop: each of comment, counters, skbinfo that is
\* among the words becomes True and its first occurrence is removed
RECURSIVE PopFlags(_, _, _)
PopFlags(header, dict, params) ==
    IF params = <<>> THEN [header |-> header, dict |-> dict]
    ELSE IF IndexOf(header, Head(params)) # 0
    THEN PopFlags(Pop(header, IndexOf(header, Head(params))),
                  (Head(params) :> PyTrue) @@ dict, Tail(params))
    ELSE PopFlags(header, dict, Tail(params))

\* "for i in range(0, len(params), 2)": key and value taken in pairs into dict,
\* a later pair replacing an earlier one of the same key; params[i + 1] of a
\* last word without a value is an IndexError
RECURSIVE Pairs(_, _)
Pairs(params, dict) ==
    IF params = <<>> THEN [exc |-> "none", dict |-> dict]
    ELSE IF Len(params) = 1 THEN [exc |-> "IndexError", dict |-> dict]
    ELSE Pairs(SubSeq(params, 3, Len(params)), (params[1] :> Coerce(params[2])) @@ dict)

\* get_set_header: the descriptor parsed from the terse listing
get_set_header(c, sn, roe, name, proto, env) ==
    The({IF r.exc # "none" THEN End(r.exc, "", r.c, sn)
         ELSE IF ~r.flag THEN Fail(roe, "Failed to list ipset set headers", "{}", r.c, sn)
         ELSE The({IF ~m.match THEN End("AttributeError", "", r.c, sn)     \* None.groups()
                   ELSE IF Len(m.groups) # 7 THEN End("ValueError", "", r.c, sn)  \* unpacking
                   ELSE The({IF h.exc # "none" THEN End(h.exc, "", r.c, sn)
                             ELSE IF \E i \in {3, 5, 6, 7} :
                                        Len(m.groups[i]) # 1 \/ ~IsDigit(m.groups[i][1])
                             THEN End("ValueError", "", r.c, sn)            \* int(...)
                             ELSE End("none",
                                      [name |-> m.groups[1],
                                       type |-> m.groups[2],
                                       revision |-> PyInt(IntOf[m.groups[3][1]]),
                                       header |-> h.dict,
                                       header_orig_line |-> m.groups[4],
                                       size_in_memory |-> PyInt(IntOf[m.groups[5][1]]),
                                       references |-> PyInt(IntOf[m.groups[6][1]]),
                                       number_of_entries |-> PyInt(IntOf[m.groups[7][1]])],
                                      r.c, sn)
                             : h \in {The({Pairs(p.header, p.dict)
                                            : p \in {PopFlags(Shlex(m.groups[4]), EmptyDict,
                                                               <<"comment", "counters", "skbinfo">>)}})}})
                   : m \in {RegexTerse(proto, r.output \o <<NL>>)}})
         : r \in {Exec(c, Cmd("list -terse", <<name>>, <<>>, FALSE), env)}})

\* __IPSET_RE_LIST_MEMBERS.search(text).group(1): what follows the last
\* "Members:" that ends a line
RegexMembers(text) ==
    The({IF at = {} THEN [match |-> FALSE, group |-> <<>>]
         ELSE [match |-> TRUE,
               group |-> SubSeq(text, (CHOOSE i \in at : \A j \in at : j <= i) + 2, Len(text))]
         : at \in {{i \in 1..(Len(text) - 1) : text[i] = "Members:" /\ text[i + 1] = NL}}})

\* the non-empty lines of the entries section, each split into words
RECURSIVE MemberItems(_)
MemberItems(lines) ==
    IF lines = <<>> THEN <<>>
    ELSE IF Head(lines) = <<>> THEN MemberItems(Tail(lines))
    ELSE <<Shlex(Head(lines))>> \o MemberItems(Tail(lines))

\* the loop over members_list: one record per item, keyed by its first word
RECURSIVE MemberRecords(_, _)
MemberRecords(items, dict) ==
    IF items = <<>> THEN [exc |-> "none", dict |-> dict]
    ELSE IF Head(items) = <<>> THEN [exc |-> "IndexError", dict |-> dict]   \* item[0]
    ELSE The({IF p.exc # "none" THEN [exc |-> p.exc, dict |-> dict]
              ELSE MemberRecords(Tail(items), (Head(items)[1] :> p.dict) @@ dict)
              : p \in {Pairs(Tail(Head(items)), EmptyDict)}})

\* get_set_members: the records parsed from the entries section
get_set_members(c, sn, roe, name, env) ==
    The({IF r.exc # "none" THEN End(r.exc, "", r.c, sn)
         ELSE IF ~r.flag THEN Fail(roe, "Failed to list ipset set members", "{}", r.c, sn)
         ELSE The({IF ~m.match THEN End("AttributeError", "", r.c, sn)     \* None.group(1)
                   ELSE The({IF d.exc # "none" THEN End(d.exc, "", r.c, sn)
                             ELSE End("none", d.dict, r.c, sn)
                             : d \in {MemberRecords(MemberItems(SplitLines(Strip(m.group))),
                                                    EmptyDict)}})
                   : m \in {RegexMembers(r.output \o <<NL>>)}})
         : r \in {Exec(c, Cmd("list", <<name>>, <<>>, FALSE), env)}})

add_entry(c, sn, roe, name, entry, ignore_if_exists, env) ==
    The({IF r.exc # "none" THEN End(r.exc, "", r.c, sn)
         ELSE IF ~r.flag THEN Fail(roe, "Failed to add entry to ipset set", "False", r.c, sn)
         ELSE End("none", "True", r.c, sn)
         : r \in {Exec(c, Cmd("add", <<name>>, <<entry>>, ignore_if_exists), env)}})

test_entry(c, sn, roe, name, entry, raise_on_test_failed, env) ==
    The({IF r.exc # "none" THEN End(r.exc, "", r.c, sn)
         ELSE IF ~r.flag
         THEN Fail(roe /\ raise_on_test_failed, "test failed", "False", r.c, sn)
         ELSE End("none", "True", r.c, sn)
         : r \in {Exec(c, Cmd("test", <<name>>, <<entry>>, FALSE), env)}})

del_entry(c, sn, roe, name, entry, ignore_if_not_exists, raise_if_not_exists, env) ==
    The({IF r.exc # "none" THEN End(r.exc, "", r.c, sn)
         ELSE IF ~r.flag
         THEN Fail(roe /\ raise_if_not_exists, "Failed to delete from set", "False", r.c, sn)
         ELSE End("none", "True", r.c, sn)
         : r \in {Exec(c, Cmd("del", <<name>>, <<entry>>, ignore_if_not_exists), env)}})

\* create_set from the command on: lines 642-659
create_set_run(c, sn, roe, name, set_type, attrs, ignore_if_exists, e1, e2) ==
    The({IF r.exc # "none" THEN End(r.exc, "", r.c, sn)
         ELSE IF ~r.flag THEN Fail(roe, "Failed to create ipset set", "False", r.c, sn)
         ELSE RefreshAndReturnTrue(r.c, sn, e2)
         : r \in {Exec(c, Cmd("create", <<name>>, <<set_type>> \o FlagText(attrs),
                               ignore_if_exists), e1)}})

\* a mutation of create_set: the family is not validated
create_set_any_family(c, sn, roe, name, set_type, family, attrs, ignore_if_exists, e1, e2) ==
    IF set_type \notin DOMAIN VALID_SET_TYPES
    THEN Fail(roe, "Invalid set type", "False", c, sn)
    ELSE create_set_run(c, sn, roe, name, set_type, attrs, ignore_if_exists, e1, e2)

\* create_set: attrs are the flag arguments that are True (with_comment,
\* with_counters, with_skbinfo, nomatch, forceadd, wildcard)
create_set(c, sn, roe, name, set_type, family, attrs, ignore_if_exists, e1, e2) ==
    IF set_type \notin DOMAIN VALID_SET_TYPES
    THEN Fail(roe, "Invalid set type", "False", c, sn)
    ELSE IF family \notin ValidFamilies
    THEN Fail(roe, "Invalid 'family'", "False", c, sn)
    ELSE create_set_run(c, sn, roe, name, set_type, attrs, ignore_if_exists, e1, e2)

(***************************************************************************)
(* save and restore, and the files they touch                              *)
(***************************************************************************)
Paths == {"f", "f.gz"}
\* to_file=None
NoPath == "None"

\* str.endswith(".gz")
EndsWithGz(p) == p = "f.gz"
\* to_file + ".gz", for a path that does not end in ".gz"
AppendGz(p) == IF p = "f" THEN "f.gz" ELSE p

NoFile == [exists |-> FALSE, gz |-> FALSE, text |-> <<>>]
\* a file that was there before, written by someone else
OldFile(p) == [exists |-> TRUE, gz |-> EndsWithGz(p), text |-> <<"old", NL>>]

\* the file save() writes for (to_file, gzipped): lines 211-212
SaveIsGzipped(to_file, gzipped) == IF EndsWithGz(to_file) THEN TRUE ELSE gzipped
SaveTarget(to_file, gzipped) ==
    IF SaveIsGzipped(to_file, gzipped) /\ ~EndsWithGz(to_file)
    THEN AppendGz(to_file) ELSE to_file

EndF(e, fs, tmp) == e @@ [fs |-> fs, tmp |-> tmp]

\* save(to_file, gzipped, overwrite_if_exists); io_ok: the file can be written
save(c, sn, fs, roe, to_file, gzipped, overwrite_if_exists, env, io_ok) ==
    IF to_file # NoPath /\ ~overwrite_if_exists /\ fs[to_file].exists
    THEN EndF(Fail(roe, "File already exists", "False", c, sn), fs, "none")
    ELSE The({IF r.exc # "none" THEN EndF(End(r.exc, "", r.c, sn), fs, "none")
              ELSE IF r.flag
              THEN IF to_file # NoPath
                   THEN IF io_ok
                        THEN EndF(End("none", "True", r.c, sn),
                                  [fs EXCEPT ![SaveTarget(to_file, gzipped)] =
                                       [exists |-> TRUE,
                                        gz     |-> SaveIsGzipped(to_file, gzipped),
                                        text   |-> r.output]],
                                  "none")
                        ELSE EndF(Fail(roe, "Failed to save ipset rules to file", "False",
                                       r.c, sn), fs, "none")
                   ELSE EndF(End("none", "text", r.c, sn), fs, "none")
              ELSE EndF(Fail(roe, "Failed to save ipset rules", "None", r.c, sn), fs, "none")
              : r \in {Exec(c, Cmd("save", <<>>, <<>>, FALSE), env)}})

\* f.readlines() followed by strip() of each line
ReadLines(text) ==
    LET parts == SplitLines(text)
        lines == IF parts[Len(parts)] = <<>> THEN SubSeq(parts, 1, Len(parts) - 1) ELSE parts
    IN  [i \in 1..Len(lines) |-> Strip(lines[i])]

\* item.startswith(word + " ")
StartsWith(line, word) == Len(line) >= 2 /\ line[1] = word /\ line[2] = SP

RECURSIVE Filter(_, _)
Filter(lines, word) ==
    IF lines = <<>> THEN <<>>
    ELSE IF StartsWith(Head(lines), word) THEN Filter(Tail(lines), word)
    ELSE <<Head(lines)>> \o Filter(Tail(lines), word)

\* '\n'.join(lines)
RECURSIVE Join(_)
Join(lines) ==
    IF lines = <<>> THEN <<>>
    ELSE IF Len(lines) = 1 THEN lines[1]
    ELSE lines[1] \o <<NL>> \o Join(Tail(lines))

\* the lines restore hands to the tool: lines 242-259
RestoreLines(text, skip_create_sets, skip_add_entries) ==
    The({The({IF skip_add_entries THEN Filter(kept, "add") ELSE kept
              : kept \in {IF skip_create_sets THEN Filter(textfile, "create") ELSE textfile}})
         : textfile \in {ReadLines(text)}})

\* restore from the command on (lines 266-275), with the temporary file made
restore_run(c, sn, fs, roe, lines, ignore_if_exists, e1, e2) ==
    The({IF r.exc # "none" THEN EndF(End(r.exc, "", r.c, sn), fs, "left")
         ELSE The({IF u.exc # "none" THEN EndF(End(u.exc, "", u.c, u.sn), fs, "left")
                   ELSE IF ~r.flag
                   THEN EndF(Fail(roe, "Failed to restore file", "False", u.c, u.sn),
                             fs, "removed")
                   ELSE EndF(End("none", "True", u.c, u.sn), fs, "removed")
                   : u \in {update_set_names(r.c, sn, e2)}})
         : r \in {Exec(c, Cmd("restore", Join(lines), <<>>, ignore_if_exists), e1)}})

\* restore(file_to_restore, skip_create_sets, skip_add_entries, ignore_if_exists)
\* tmp: "none" no temporary file was created, "removed" it was created and
\* removed, "left" it was created and still exists when the call ends
restore(c, sn, fs, roe, file, skip_create_sets, skip_add_entries, ignore_if_exists, e1, e2) ==
    IF ~fs[file].exists
    THEN EndF(Fail(roe, "Cannot access/locate the specified file", "False", c, sn), fs, "none")
    ELSE IF fs[file].gz # EndsWithGz(file)
    THEN EndF(Fail(roe, "Failed to read the file", "False", c, sn), fs, "none")
    ELSE IF ~(skip_add_entries \/ skip_create_sets \/ EndsWithGz(file))
    THEN EndF(End("UnboundLocalError", "", c, sn), fs, "none")  \* new_file_to_restore
    ELSE restore_run(c, sn, fs, roe,
                     RestoreLines(fs[file].text, skip_create_sets, skip_add_entries),
                     ignore_if_exists, e1, e2)

(***************************************************************************)
(* The command runner on an arbitrary child                                *)
(***************************************************************************)
RawTexts == SeqsUpTo({"a", SP, NL}, MaxLen)

RawChildren ==
    [found : BOOLEAN, duration : Durations, rc : ExitCodes,
     stdout : RawTexts, stderr : RawTexts]

NoRun == [exc |-> "notrun", flag |-> FALSE, output |-> <<>>,
          killed |-> FALSE, spawned |-> FALSE, expired |-> FALSE]

NoChild == [found |-> TRUE, duration |-> 1, rc |-> 0, stdout |-> <<>>, stderr |-> <<>>]

NoRet == [op |-> "none", args |-> <<>>, exc |-> "none", val |-> "None",
          cmds |-> <<>>, runs |-> <<>>, durs |-> <<>>, tmp |-> "none"]

\* one call of the command runner on an arbitrary child
RunStep ==
    /\ run = NoRun
    /\ run' = RunCommand(child, DefaultCommandTimeout, DefaultRunRaise)
    /\ UNCHANGED <<child, raise_on_errors, command_timeout, protocol, set_names, kernel, files, ret>>

InitRun ==
    /\ child \in RawChildren
    /\ run = NoRun
    /\ raise_on_errors = TRUE
    /\ command_timeout = DefaultCommandTimeout
    /\ protocol = 7
    /\ set_names = <<<<>>>>
    /\ kernel = EmptyKernel
    /\ files = [p \in Paths |-> NoFile]
    /\ ret = NoRet

NextRun == RunStep

SpecRun == InitRun /\ [][NextRun]_vars

(***************************************************************************)
(* The calls a program makes on one instance                               *)
(***************************************************************************)
\* what a call leaves in ret; args are the arguments the properties refer to
Ret(op, args, e, tmp) ==
    [op |-> op, args |-> args, exc |-> e.exc, val |-> e.val,
     cmds |-> e.cmds, runs |-> e.runs, durs |-> e.durs, tmp |-> tmp]

\* set types and families a caller may ask create_set for
TypeInputs == {"hash:ip", "hash:bogus"}
FamilyInputs == {"inet", "inet6", "ipx"}
\* flag arguments a caller may set: none, or nomatch, which the list of
\* "hash:ip" in VALID_SET_TYPES does not hold
AttrInputs == {{}, {"nomatch"}}

GetSetNames ==
    \E env \in Envs :
        \E e \in {get_set_names(Ctx(kernel), set_names, raise_on_errors, env)} :
            /\ kernel' = e.k
            /\ set_names' = e.sn
            /\ ret' = Ret("get_set_names", <<>>, e, "none")
            /\ UNCHANGED <<child, run, raise_on_errors, command_timeout, protocol, files>>

DestroySet ==
    \E n \in Names, e1, e2 \in Envs :
        \E e \in {destroy_set(Ctx(kernel), set_names, raise_on_errors, <<n>>, e1, e2)} :
            /\ kernel' = e.k
            /\ set_names' = e.sn
            /\ ret' = Ret("destroy_set", [setname |-> n], e, "none")
            /\ UNCHANGED <<child, run, raise_on_errors, command_timeout, protocol, files>>

DestroyAll ==
    \E envs \in [1..(1 + 2 * Cardinality(Names)) -> LoopEnvs] :
        \E e \in {destroy_all(Ctx(kernel), set_names, raise_on_errors, envs)} :
            /\ kernel' = e.k
            /\ set_names' = e.sn
            /\ ret' = Ret("destroy_all", <<>>, e, "none")
            /\ UNCHANGED <<child, run, raise_on_errors, command_timeout, protocol, files>>

RenameSet ==
    \E old, new \in Names, e1, e2 \in Envs :
        \E e \in {rename_set(Ctx(kernel), set_names, raise_on_errors, old, new, e1, e2)} :
            /\ kernel' = e.k
            /\ set_names' = e.sn
            /\ ret' = Ret("rename_set", <<>>, e, "none")
            /\ UNCHANGED <<child, run, raise_on_errors, command_timeout, protocol, files>>

SwapSet ==
    \E from, to \in Names, env \in Envs :
        \E e \in {swap_set(Ctx(kernel), set_names, raise_on_errors, from, to, env)} :
            /\ kernel' = e.k
            /\ set_names' = e.sn
            /\ ret' = Ret("swap_set", <<>>, e, "none")
            /\ UNCHANGED <<child, run, raise_on_errors, command_timeout, protocol, files>>

FlushSet ==
    \E n \in Names, env \in Envs :
        \E e \in {flush_set(Ctx(kernel), set_names, raise_on_errors, n, env)} :
            /\ kernel' = e.k
            /\ set_names' = e.sn
            /\ ret' = Ret("flush_set", <<>>, e, "none")
            /\ UNCHANGED <<child, run, raise_on_errors, command_timeout, protocol, files>>

FlushAll ==
    \E ignore_errors \in BOOLEAN, env \in Envs :
        \E e \in {flush_all(Ctx(kernel), set_names, raise_on_errors, ignore_errors, env)} :
            /\ kernel' = e.k
            /\ set_names' = e.sn
            /\ ret' = Ret("flush_all", [ignore_errors |-> ignore_errors], e, "none")
            /\ UNCHANGED <<child, run, raise_on_errors, command_timeout, protocol, files>>

GetSetHeader ==
    \E n \in Names, env \in Envs :
        \E e \in {get_set_header(Ctx(kernel), set_names, raise_on_errors, n, protocol, env)} :
            /\ kernel' = e.k
            /\ set_names' = e.sn
            /\ ret' = Ret("get_set_header", [setname |-> n], e, "none")
            /\ UNCHANGED <<child, run, raise_on_errors, command_timeout, protocol, files>>

GetSetMembers ==
    \E n \in Names, env \in Envs :
        \E e \in {get_set_members(Ctx(kernel), set_names, raise_on_errors, n, env)} :
            /\ kernel' = e.k
            /\ set_names' = e.sn
            /\ ret' = Ret("get_set_members", [setname |-> n], e, "none")
            /\ UNCHANGED <<child, run, raise_on_errors, command_timeout, protocol, files>>

AddEntry ==
    \E n \in Names, x \in Entries, ignore_if_exists \in BOOLEAN, env \in EntryEnvs :
        \E e \in {add_entry(Ctx(kernel), set_names, raise_on_errors, n, x, ignore_if_exists, env)} :
            /\ kernel' = e.k
            /\ set_names' = e.sn
            /\ ret' = Ret("add_entry", <<>>, e, "none")
            /\ UNCHANGED <<child, run, raise_on_errors, command_timeout, protocol, files>>

TestEntry ==
    \E n \in Names, x \in Entries, raise_on_test_failed \in BOOLEAN, env \in Envs :
        \E e \in {test_entry(Ctx(kernel), set_names, raise_on_errors, n, x, raise_on_test_failed, env)} :
            /\ kernel' = e.k
            /\ set_names' = e.sn
            /\ ret' = Ret("test_entry", [raise_on_test_failed |-> raise_on_test_failed], e, "none")
            /\ UNCHANGED <<child, run, raise_on_errors, command_timeout, protocol, files>>

DelEntry ==
    \E n \in Names, x \in Entries, ignore_if_not_exists, raise_if_not_exists \in BOOLEAN,
       env \in Envs :
        \E e \in {del_entry(Ctx(kernel), set_names, raise_on_errors, n, x, ignore_if_not_exists,
                           raise_if_not_exists, env)} :
            /\ kernel' = e.k
            /\ set_names' = e.sn
            /\ ret' = Ret("del_entry", [raise_if_not_exists |-> raise_if_not_exists], e, "none")
            /\ UNCHANGED <<child, run, raise_on_errors, command_timeout, protocol, files>>

CreateSet ==
    \E n \in Names, t \in TypeInputs, fam \in FamilyInputs, attrs \in AttrInputs,
       ignore_if_exists \in BOOLEAN, e1, e2 \in Envs :
        \E e \in {create_set(Ctx(kernel), set_names, raise_on_errors, n, t, fam, attrs,
                            ignore_if_exists, e1, e2)} :
            /\ kernel' = e.k
            /\ set_names' = e.sn
            /\ ret' = Ret("create_set", [set_type |-> t, family |-> fam, attrs |-> attrs], e, "none")
            /\ UNCHANGED <<child, run, raise_on_errors, command_timeout, protocol, files>>

Save ==
    \E to_file \in Paths \cup {NoPath}, gzipped, overwrite_if_exists, io_ok \in BOOLEAN,
       env \in Envs :
        \E e \in {save(Ctx(kernel), set_names, files, raise_on_errors, to_file, gzipped,
                      overwrite_if_exists, env, io_ok)} :
            /\ kernel' = e.k
            /\ set_names' = e.sn
            /\ ret' = Ret("save", [to_file |-> to_file, gzipped |-> gzipped,
                              overwrite_if_exists |-> overwrite_if_exists], e, e.tmp)
            /\ files' = e.fs
            /\ UNCHANGED <<child, run, raise_on_errors, command_timeout, protocol>>

Restore ==
    \E file \in Paths, skip_create_sets, skip_add_entries, ignore_if_exists \in BOOLEAN,
       e1, e2 \in Envs :
        \E e \in {restore(Ctx(kernel), set_names, files, raise_on_errors, file, skip_create_sets,
                         skip_add_entries, ignore_if_exists, e1, e2)} :
            /\ kernel' = e.k
            /\ set_names' = e.sn
            /\ ret' = Ret("restore", [file_to_restore |-> file, skip_create_sets |-> skip_create_sets,
                                 skip_add_entries |-> skip_add_entries], e, e.tmp)
            /\ files' = e.fs
            /\ UNCHANGED <<child, run, raise_on_errors, command_timeout, protocol>>

\* the instance timeouts a program may construct with
InstanceTimeouts == {3, 5}

\* the cached list after construction: __init__ ran get_set_names with success
InitialNames(k) == SplitLines(Strip(ListNames(k)))

OneSetKernel ==
    [EmptyKernel EXCEPT !["a"] = [exists |-> TRUE, type |-> "hash:ip", flags |-> {}, members |-> {"1"}]]

\* an instance over a tool with no file of the caller around
Init ==
    /\ child = NoChild
    /\ run = NoRun
    /\ raise_on_errors \in BOOLEAN
    /\ command_timeout = DefaultCommandTimeout
    /\ protocol = 7
    /\ kernel \in {EmptyKernel, OneSetKernel}
    /\ set_names = InitialNames(kernel)
    /\ files = [p \in Paths |-> NoFile]
    /\ ret = NoRet

Next ==
    \/ GetSetNames
    \/ CreateSet
    \/ DestroySet
    \/ DestroyAll
    \/ RenameSet

Spec == Init /\ [][Next]_vars

SameTypeKernel ==
    [OneSetKernel EXCEPT !["b"] = [exists |-> TRUE, type |-> "hash:ip", flags |-> {}, members |-> {}]]

\* an instance over a tool with sets: entries are added, tested and deleted
InitEntry ==
    /\ child = NoChild
    /\ run = NoRun
    /\ raise_on_errors \in BOOLEAN
    /\ command_timeout \in InstanceTimeouts
    /\ protocol = 7
    /\ kernel \in {OneSetKernel, SameTypeKernel}
    /\ set_names = InitialNames(kernel)
    /\ files = [p \in Paths |-> NoFile]
    /\ ret = NoRet

NextEntry ==
    \/ AddEntry
    \/ TestEntry
    \/ DelEntry
    \/ FlushSet
    \/ FlushAll
    \/ SwapSet
    \/ GetSetHeader
    \/ GetSetMembers

SpecEntry == InitEntry /\ [][NextEntry]_vars

\* sets with and without flags, with a nomatch entry, and with no entry
FlaggedKernel ==
    [OneSetKernel EXCEPT !["b"] = [exists |-> TRUE, type |-> "hash:ip",
                                   flags |-> {"comment", "counters"}, members |-> {"1"}]]
NetKernel ==
    [EmptyKernel EXCEPT !["a"] = [exists |-> TRUE, type |-> "hash:net", flags |-> {},
                                  members |-> {"1", "9"}],
                        !["b"] = [exists |-> TRUE, type |-> "hash:net", flags |-> {},
                                  members |-> {}]]

\* the protocols the constructor accepts
Protocols == {6, 7}

\* an instance over a tool of either protocol: sets are listed and flushed
InitList ==
    /\ child = NoChild
    /\ run = NoRun
    /\ raise_on_errors \in BOOLEAN
    /\ command_timeout = DefaultCommandTimeout
    /\ protocol \in Protocols
    /\ kernel \in {FlaggedKernel, NetKernel}
    /\ set_names = InitialNames(kernel)
    /\ files = [p \in Paths |-> NoFile]
    /\ ret = NoRet

NextList ==
    \/ GetSetHeader
    \/ GetSetMembers
    \/ FlushSet

SpecList == InitList /\ [][NextList]_vars

\* an instance and the files of the caller, there or not: the state is saved
InitSave ==
    /\ child = NoChild
    /\ run = NoRun
    /\ raise_on_errors \in BOOLEAN
    /\ command_timeout = DefaultCommandTimeout
    /\ protocol = 7
    /\ kernel \in {EmptyKernel, OneSetKernel}
    /\ set_names = InitialNames(kernel)
    /\ files \in [Paths -> {NoFile}] \cup {[p \in Paths |-> IF p \in Q THEN OldFile(p) ELSE NoFile] :
                                            Q \in SUBSET Paths}
    /\ ret = NoRet

NextSave == Save

SpecSave == InitSave /\ [][NextSave]_vars

\* what save(to_file) left in to_file when the tool held the sets of k
SavedFile(p, k) == [exists |-> TRUE, gz |-> EndsWithGz(p), text |-> Strip(Dump(k))]

\* the states of the tool the dump files were saved in
SavedKernels == {OneSetKernel}

\* an instance and dump files saved earlier, or files that are no dumps; the
\* tool has no sets, or the sets it had at a save
InitRestore ==
    /\ child = NoChild
    /\ run = NoRun
    /\ raise_on_errors \in BOOLEAN
    /\ command_timeout = DefaultCommandTimeout
    /\ protocol = 7
    /\ kernel \in {EmptyKernel, OneSetKernel}
    /\ set_names = InitialNames(kernel)
    /\ files \in {[p \in Paths |-> SavedFile(p, k)] : k \in SavedKernels}
                 \cup {[p \in Paths |-> IF EndsWithGz(p) THEN NoFile ELSE OldFile(p)]}
    /\ ret = NoRet

NextRestore ==
    \/ Restore
    \/ DestroySet

SpecRestore == InitRestore /\ [][NextRestore]_vars

(***************************************************************************)
(* Properties of the command runner (SpecRun)                              *)
(***************************************************************************)
\* the child started and exited within the timeout, and the runner has run
RanToExit ==
    /\ run # NoRun
    /\ child.found
    /\ child.duration <= DefaultCommandTimeout

\* the child was still running when the timeout expired, and the runner has run
RanToTimeout ==
    /\ run # NoRun
    /\ child.found
    /\ child.duration > DefaultCommandTimeout

AllWhitespace(s) == \A i \in 1..Len(s) : s[i] \in Whitespace

\* o is s without its leading and trailing whitespace
IsStripped(o, s) ==
    /\ o = <<>> \/ (o[1] \notin Whitespace /\ o[Len(o)] \notin Whitespace)
    /\ \E i \in 0..Len(s) :
          /\ i + Len(o) <= Len(s)
          /\ SubSeq(s, i + 1, i + Len(o)) = o
          /\ AllWhitespace(SubSeq(s, 1, i))
          /\ AllWhitespace(SubSeq(s, i + Len(o) + 1, Len(s)))

\* C1 as stated: for a child that exits within the timeout the runner returns
\* a flag that is true exactly when the exit status is zero, and the output is
\* the child's stdout when the flag is true and its stderr when it is false.
C1_OutputIsStream ==
    RanToExit =>
        /\ run.exc = "none"
        /\ run.flag = (child.rc = 0)
        /\ run.output = (IF run.flag THEN child.stdout ELSE child.stderr)

\* C1 amended: for a child that exits within the timeout the runner returns a
\* flag that is true exactly when the exit status is zero, and the output is
\* the child's stdout (flag true) or stderr (flag false) with the leading and
\* trailing whitespace removed.
C1_OutputIsStrippedStream ==
    RanToExit =>
        /\ run.exc = "none"
        /\ run.flag = (child.rc = 0)
        /\ IsStripped(run.output, IF run.flag THEN child.stdout ELSE child.stderr)

\* a child failed with text on stderr that differs from its stdout, both
\* carrying whitespace around them
C1_Witness ==
    /\ RanToExit
    /\ child.rc # 0
    /\ ~run.flag
    /\ child.stderr = <<"a", NL>>
    /\ child.stdout = <<SP, "a">>
    /\ run.output = <<"a">>

\* C3 as stated: when the child has not finished at the timeout, the runner
\* kills the child before returning, reports a timeout failure, and never
\* returns a success flag of true.
C3_TimeoutKilledAndReported ==
    RanToTimeout =>
        /\ run.killed
        /\ run.exc = "ezIPSetError:Command timeout"
        /\ ~run.flag

(***************************************************************************)
(* Properties of the facade methods                                        *)
(***************************************************************************)
\* the kinds of failure of the children of the last call
FailureKinds(r) == {r.runs[i] : i \in 1..Len(r.runs)} \ {"ok"}

\* the children of the last call failed in exactly one way, kind
FailedOnlyBy(r, kind) == FailureKinds(r) = {kind}

\* every child of the last call ran to a zero exit status
AllRunsOk(r) == \A i \in 1..Len(r.runs) : r.runs[i] = "ok"

\* the command of the method was refused by the tool (non-zero exit), and any
\* command after it went well
ToolReportedFailure(r) ==
    /\ r.runs # <<>>
    /\ r.runs[1] = "toolfail"
    /\ \A i \in 2..Len(r.runs) : r.runs[i] = "ok"

Returned(r, val) == r.exc = "none" /\ r.val = val

\* C2: for calls of one facade method, the three failures of the underlying
\* command run (executable not found, timed out, non-zero exit) each end the
\* call in their own way: two calls that failed differently never end alike,
\* and none of them ends in an internal error unrelated to the failure.
C2_FailuresToldApart ==
    [][\A k1, k2 \in {"notfound", "timeout", "toolfail"} :
          (/\ ret.op = ret'.op
           /\ FailedOnlyBy(ret, k1)
           /\ FailedOnlyBy(ret', k2)
           /\ k1 # k2)
          => /\ <<ret.exc, ret.val>> # <<ret'.exc, ret'.val>>
             /\ ret.exc # "UnboundLocalError"
             /\ ret'.exc # "UnboundLocalError"]_vars

\* C4: a save(to_file, gzipped, overwrite_if_exists=False) whose output file
\* (to_file, or to_file + ".gz" when gzip output is selected) already exists
\* fails, by raising or by returning False, and leaves that file as it was.
C4_ExistingFileKept ==
    [][(/\ ret'.op = "save"
        /\ ret'.args.to_file # NoPath
        /\ ~ret'.args.overwrite_if_exists
        /\ files[SaveTarget(ret'.args.to_file, ret'.args.gzipped)].exists)
       => /\ ret'.exc # "none" \/ Returned(ret', "False")
          /\ files'[SaveTarget(ret'.args.to_file, ret'.args.gzipped)]
               = files[SaveTarget(ret'.args.to_file, ret'.args.gzipped)]]_vars

\* C5: whenever restore created a temporary file, that file no longer exists
\* when restore returns or raises, on every exit path.
C5_TempFileRemoved ==
    (ret.op = "restore" /\ ret.tmp # "none") => ret.tmp = "removed"

\* the names of the sets the tool holds, one element per set
RECURSIVE NamesFrom(_, _)
NamesFrom(k, i) ==
    IF i > Len(NameOrder) THEN <<>>
    ELSE (IF k[NameOrder[i]].exists THEN <<(<<NameOrder[i]>>)>> ELSE <<>>) \o NamesFrom(k, i + 1)

\* C6: once a create_set, destroy_set, rename_set or restore call has completed
\* (here: returned True with every child successful), the cached list holds
\* exactly the names of the sets the tool has, one element per set, and is the
\* empty list when the tool has no sets.
C6_CacheIsToolNames ==
    (/\ ret.op \in {"create_set", "destroy_set", "rename_set", "restore"}
     /\ Returned(ret, "True")
     /\ AllRunsOk(ret))
    => set_names = NamesFrom(kernel, 1)

\* C7: when every destroy succeeds (here: every child of the call succeeds),
\* destroy_all completes without raising, returns True, and the cached list
\* contains none of the destroyed names.
C7_DestroyAllCompletes ==
    (ret.op = "destroy_all" /\ AllRunsOk(ret))
    => /\ Returned(ret, "True")
       /\ \A n \in Names : ~kernel[n].exists => \A i \in 1..Len(set_names) : set_names[i] # <<n>>

\* C8: when the tool reports failure, each of the listed facade methods raises
\* ezIPSetError on an instance with raise_on_errors=True, and on an instance
\* with raise_on_errors=False raises nothing and returns False or an empty
\* collection.
C8_PolicyPerInstance ==
    (/\ ret.op \in {"save", "restore", "destroy_set", "rename_set", "swap_set", "flush_set",
                    "flush_all", "get_set_names", "get_set_header", "get_set_members",
                    "add_entry", "create_set"}
     /\ ToolReportedFailure(ret))
    => IF raise_on_errors THEN ret.exc = "ezIPSetError"
       ELSE ret.exc = "none" /\ ret.val \in {"False", "[]", "{}"}

\* C9: when the tool reports a negative result, test_entry raises ezIPSetError
\* if raise_on_test_failed is True and returns False if it is False, and
\* del_entry raises ezIPSetError if raise_if_not_exists is True and returns
\* False if it is False, whatever raise_on_errors is.
C9_PerCallFlagsOverride ==
    /\ (ret.op = "test_entry" /\ ToolReportedFailure(ret))
       => IF ret.args.raise_on_test_failed THEN ret.exc = "ezIPSetError"
          ELSE Returned(ret, "False")
    /\ (ret.op = "del_entry" /\ ToolReportedFailure(ret))
       => IF ret.args.raise_if_not_exists THEN ret.exc = "ezIPSetError"
          ELSE Returned(ret, "False")

\* the arguments of a create_set call that validation must refuse
InvalidCreate(args) ==
    \/ args.set_type \notin DOMAIN VALID_SET_TYPES
    \/ args.family \notin {"inet", "inet6"}

\* C10: a create_set call whose set_type is not in VALID_SET_TYPES or whose
\* family is not 'inet' or 'inet6' ends in a validation failure (ezIPSetError
\* when raise_on_errors is True, False otherwise) without running the tool,
\* and leaves the cached list of set names unchanged.
C10_InvalidCreateRefused ==
    [][(ret'.op = "create_set" /\ InvalidCreate(ret'.args))
       => /\ IF raise_on_errors
             THEN ret'.exc = "ezIPSetError"
                  /\ ret'.val \in {"Invalid set type", "Invalid 'family'"}
             ELSE Returned(ret', "False")
          /\ ret'.cmds = <<>>
          /\ set_names' = set_names
          /\ kernel' = kernel]_vars

\* a create_set call with a valid set_type and the family 'ipx' was refused by
\* raising, with no command run and the cached list as it was
C10_Witness ==
    /\ ret.op = "create_set"
    /\ ret.args.family = "ipx"
    /\ ret.args.set_type = "hash:ip"
    /\ ret.exc = "ezIPSetError"
    /\ ret.cmds = <<>>
    /\ set_names = <<(<<"a">>)>>

(***************************************************************************)
(* Properties of the timeout, the set types, the round trip and the parsers *)
(***************************************************************************)
\* C12: the timeout given to the constructor is the one enforced: every child
\* a facade call started is treated as timed out exactly when it ran longer
\* than the instance's command_timeout.
C12_InstanceTimeoutEnforced ==
    \A i \in 1..Len(ret.runs) :
        ret.durs[i] > 0 => (ret.runs[i] = "timeout" <=> ret.durs[i] > command_timeout)

\* the attribute part of C11: a create_set call with a supported type and a
\* valid family is refused before the tool is run when it asks for an
\* attribute outside the type's subset, and runs the tool otherwise
AttributesValidated(after) ==
    (after.op = "create_set" /\ ~InvalidCreate(after.args))
    => IF after.args.attrs \subseteq VALID_SET_TYPES[after.args.set_type]
       THEN after.cmds # <<>> /\ after.cmds[1] = "create"
       ELSE /\ after.cmds = <<>>
            /\ after.exc = "ezIPSetError" \/ Returned(after, "False")

\* C11: there are exactly fifteen supported set types, each with its subset of
\* optional attributes; a create_set call that asks for an attribute outside
\* the subset of its type is rejected by validation before the tool is
\* invoked, and a call with attributes of the subset only is passed on to the
\* tool.
C11_AttributesValidated ==
    [][/\ Cardinality(DOMAIN VALID_SET_TYPES) = 15
       /\ AttributesValidated(ret')]_vars

\* the listing of a set succeeded: the one child of the call ran to a zero exit
Listed(r, op) == r.op = op /\ r.runs = <<"ok">>

\* the header mapping of set s as C15 describes it: the flag tokens map to
\* True, the other tokens map key to value, digit-only values being integers
ExpectedHeader(s) ==
    [family |-> PyStr("inet"), hashsize |-> PyInt(1024), maxelem |-> PyInt(65536)]
    @@ [f \in s.flags \cap {"comment", "counters", "skbinfo"} |-> PyTrue]

\* C15: on an instance of protocol 6 or 7, for every successful terse listing
\* get_set_header returns a descriptor with name, type, integer revision,
\* header mapping, integer size_in_memory, integer references and integer
\* number_of_entries; in the header mapping the flag tokens comment, counters,
\* skbinfo map to True, every other token pair maps key to value, and a
\* digit-only value is an integer.
C15_HeaderDescriptor ==
    Listed(ret, "get_set_header")
    => /\ protocol \in Protocols
       /\ ret.exc = "none"
       /\ ret.val.name = <<ret.args.setname>>
       /\ ret.val.type = <<kernel[ret.args.setname].type>>
       /\ ret.val.revision = PyInt(4)
       /\ ret.val.header = ExpectedHeader(kernel[ret.args.setname])
       /\ ret.val.size_in_memory = PyInt(16728)
       /\ ret.val.references = PyInt(0)
       /\ ret.val.number_of_entries = PyInt(Cardinality(kernel[ret.args.setname].members))

\* the record of an entry of set s as C16 describes it, for an entry whose
\* line holds key+value pairs after the member key
ExpectedRecord(s) ==
    (IF "counters" \in s.flags THEN [packets |-> PyInt(0), bytes |-> PyInt(0)] ELSE EmptyDict)
    @@ (IF "comment" \in s.flags THEN [comment |-> PyStr("office")] ELSE EmptyDict)

\* C16: for every successful listing get_set_members returns one record per
\* non-empty line of the entries section, keyed by the first token of the
\* line, and an empty mapping when the section has no lines; the following
\* tokens are key+value pairs, a digit-only value an integer, any other a
\* string.
C16_MemberRecords ==
    Listed(ret, "get_set_members")
    => /\ ret.exc = "none"
       /\ DOMAIN ret.val = kernel[ret.args.setname].members
       /\ \A e \in kernel[ret.args.setname].members \ NomatchEntries :
              ret.val[e] = ExpectedRecord(kernel[ret.args.setname])

\* the set names, the type of each and the number of entries of each
Summary(k) ==
    [n \in Names |-> [exists |-> k[n].exists, type |-> k[n].type,
                      entries |-> Cardinality(k[n].members)]]

\* C13: save(to_file) followed, in a namespace with no sets, by
\* restore(to_file) with no filtering succeeds and leaves the tool with the
\* same set names, types and numbers of entries as before the save, for a
\* plain file and for a gzip-compressed file (here: the file is what save left
\* of state k0, and every child of the restore ran to a zero exit).
C13_RoundTrip ==
    [][\A k0 \in SavedKernels :
          (/\ ret'.op = "restore"
           /\ ~ret'.args.skip_create_sets
           /\ ~ret'.args.skip_add_entries
           /\ kernel = EmptyKernel
           /\ files[ret'.args.file_to_restore] = SavedFile(ret'.args.file_to_restore, k0)
           /\ AllRunsOk(ret'))
          => /\ Returned(ret', "True")
             /\ Summary(kernel') = Summary(k0)]_vars

\* C14: for an existing readable input file, whatever the skip flags and
\* whether the input is plain or '.gz', restore runs the tool's restore
\* subcommand on a file that has been determined: the call never ends before
\* that command for want of the file's name.
C14_RestoreFileDetermined ==
    (/\ ret.op = "restore"
     /\ files[ret.args.file_to_restore].exists
     /\ files[ret.args.file_to_restore].gz = EndsWithGz(ret.args.file_to_restore))
    => /\ ret.cmds # <<>>
       /\ ret.cmds[1] = "restore"

\* C17: when the refresh of the set-name list that ends create_set,
\* destroy_set, rename_set or restore finds that 'list -name' failed, the
\* cached list is empty afterwards and holds no text of an error message.
C17_FailedRefreshEmptiesCache ==
    (/\ ret.op \in {"create_set", "destroy_set", "rename_set", "restore"}
     /\ Len(ret.cmds) = 2
     /\ ret.cmds[2] = "list -name"
     /\ ret.runs[2] = "toolfail")
    => set_names = <<>>

====
